---- MODULE Spec2Model ----
(***************************************************************************)
(* ArgusSentinel: the process collector (collector/process_collector.go),  *)
(* the filter and configuration (config), and the orchestrator (main.go).  *)
(*                                                                         *)
(* Strings that the code folds or glob-matches (process names, user names, *)
(* filter list entries) are sequences of one-character strings, so that    *)
(* strings.ToLower, strings.EqualFold and filepath.Match are computed.     *)
(* Strings that are only compared for equality (command line, working      *)
(* directory) are plain strings.  A timestamp is the reading of one call of *)
(* time.Now(), named by the place of the call, the PID it is made for and  *)
(* the number of the call there: readings of different calls may differ.   *)
(***************************************************************************)
EXTENDS Integers, Sequences, FiniteSets, TLC

VARIABLES
    config,            \* ProcessCollector.config / ProcessMonitor.config
    currentProcesses,  \* ProcessCollector.currentProcesses (retained snapshot)
    mutex,             \* ProcessCollector.mutex is held
    events,            \* ProcessMonitor.events: the buffered channel, oldest first
    cancelled,         \* pm.ctx is done
    tickPending,       \* a tick is waiting in ticker.C
    pcMonitor,         \* position of ProcessCollector.Monitor
    newSnapshot,       \* Monitor's local newSnapshot
    pending,           \* events the current tick still has to send, in order
    tickSent,          \* history: events the current tick has sent so far
    enumErr,           \* Monitor's local err after getRunningProcesses
    polled,            \* the handles process.Processes() returned in this tick
    live,              \* history: PIDs whose last lifecycle event sent is Created
    pcConsumer,        \* position of ProcessMonitor.processEventLoop
    pcMain,            \* position of main / ProcessMonitor.Stop
    wg                 \* ProcessMonitor.wg counter

vars == <<config, currentProcesses, mutex, events, cancelled, tickPending,
          pcMonitor, newSnapshot, pending, tickSent, enumErr, polled, live,
          pcConsumer, pcMain, wg>>

(***************************************************************************)
(* Bounds                                                                  *)
(***************************************************************************)
\* PIDs the Process Source may report are 1..MaxPid
MaxPid == 2
\* capacity of the event channel (1000 in main.go:40), scaled down so that a
\* full channel is reached
ChanCap == 1

PIDs == 1..MaxPid

(***************************************************************************)
(* strings, unicode                                                        *)
(***************************************************************************)
\* unicode.ToLower on the characters that occur
LowerChar(c) ==
    CASE c = "A" -> "a"
      [] c = "B" -> "b"
      [] c = "R" -> "r"
      [] c = "S" -> "s"
      [] OTHER -> c

RECURSIVE ToLower(_)
ToLower(s) ==
    IF s = <<>> THEN <<>> ELSE <<LowerChar(Head(s))>> \o ToLower(Tail(s))

EqualFold(s, t) == ToLower(s) = ToLower(t)

(***************************************************************************)
(* path/filepath.Match, for names without path separators.  Patterns are   *)
(* made of literals, "*", "?" and "[": the only bracket expressions that   *)
(* occur are unterminated ones, for which Match reports ErrBadPattern.     *)
(***************************************************************************)
BadPattern(pattern) == \E i \in 1..Len(pattern) : pattern[i] = "["

RECURSIVE MatchFrom(_, _)
MatchFrom(pattern, name) ==
    IF pattern = <<>> THEN name = <<>>
    ELSE IF Head(pattern) = "*"
         THEN \E k \in 0..Len(name) :
                  MatchFrom(Tail(pattern), SubSeq(name, k + 1, Len(name)))
    ELSE IF name = <<>> THEN FALSE
    ELSE IF Head(pattern) = "?" THEN MatchFrom(Tail(pattern), Tail(name))
    ELSE Head(pattern) = Head(name) /\ MatchFrom(Tail(pattern), Tail(name))

\* the pair (matched, err) that filepath.Match returns
Match(pattern, name) ==
    IF BadPattern(pattern)
    THEN [matched |-> FALSE, err |-> TRUE]
    ELSE [matched |-> MatchFrom(pattern, name), err |-> FALSE]

(***************************************************************************)
(* config: MonitoringConfig                                                *)
(* Durations are in milliseconds; the float64 thresholds are in percent    *)
(* (0.1 is 10), so that the comparisons are exact integer comparisons.     *)
(***************************************************************************)
\* process and user names that occur; NameSvc stands for "svchost.exe",
\* NameBroker for "RuntimeBroker.exe", NameApp for an ordinary program
NameSvc == <<"s", "v">>
NameSvcUpper == <<"S", "v">>
NameBroker == <<"R", "b">>
NameApp == <<"a", "b">>
UserRoot == <<"r">>
UserRootUpper == <<"R">>
UserPlain == <<"u">>
\* a glob in a filter list that matches NameApp
PatternApp == <<"a", "*">>

DefaultConfig ==
    [ PollInterval          |-> 1000,
      MemoryChangeThreshold |-> 10,
      CPUThreshold          |-> 75,
      ThreadChangeThreshold |-> 2,
      HandleChangeThreshold |-> 10,
      MonitorCommandLine    |-> TRUE,
      MonitorMemory         |-> TRUE,
      MonitorThreads        |-> TRUE,
      MonitorHandles        |-> TRUE,
      MonitorWorkingDir     |-> TRUE,
      ExcludedProcesses     |-> <<NameSvc, NameBroker>>,
      IncludedProcesses     |-> <<>>,
      ExcludedUsers         |-> <<UserRoot>> ]

\* A float64 threshold is a number of percent, or NaN (written .nan in a
\* YAML file), which every comparison answers with false.
NaN == -1000000

FloatLessEq(a, b) == a # NaN /\ b # NaN /\ a <= b

FloatGreater(a, b) == a # NaN /\ b # NaN /\ a > b

\* MonitoringConfig.Validate: TRUE when it returns nil
Validate(c) ==
    IF c.PollInterval < 100 THEN FALSE
    ELSE IF FloatLessEq(c.MemoryChangeThreshold, 0)
            \/ FloatGreater(c.MemoryChangeThreshold, 100) THEN FALSE
    ELSE IF FloatLessEq(c.CPUThreshold, 0) \/ FloatGreater(c.CPUThreshold, 100) THEN FALSE
    ELSE IF c.ThreadChangeThreshold < 0 THEN FALSE
    ELSE IF c.HandleChangeThreshold < 0 THEN FALSE
    ELSE TRUE

\* configurations a configuration file may hold; Validate rejects some
ConfigDomain ==
    [ PollInterval          : {1000},
      MemoryChangeThreshold : {10},
      CPUThreshold          : {75},
      ThreadChangeThreshold : {-1, 0, 2},
      HandleChangeThreshold : {0, 10},
      MonitorCommandLine    : {TRUE},
      MonitorMemory         : BOOLEAN,
      MonitorThreads        : BOOLEAN,
      MonitorHandles        : {TRUE},
      MonitorWorkingDir     : {TRUE},
      ExcludedProcesses     : {<<NameSvc, NameBroker>>},
      IncludedProcesses     : {<<>>, <<PatternApp>>},
      ExcludedUsers         : {<<UserRoot>>} ]

ValidConfigs == {c \in ConfigDomain : Validate(c)}

(***************************************************************************)
(* types: ProcessInfo, ProcessEvent, ProcessModification                   *)
(***************************************************************************)
\* the zero ProcessInfo with its PID set (getProcessInfo, line 54)
ZeroInfo(pid) ==
    [ PID         |-> pid,
      Name        |-> <<>>,
      Username    |-> <<>>,
      CommandLine |-> "",
      NumThreads  |-> 0,
      ThreadCount |-> 0,
      HandleCount |-> 0,
      MemoryUsage |-> 0,
      Cwd         |-> "" ]

\* the empty map[int32]types.ProcessInfo
EmptySnapshot == [pid \in {} |-> ZeroInfo(pid)]

(***************************************************************************)
(* The Process Source (gopsutil).  A process handle p answers each         *)
(* accessor with a value or an error: [err |-> ..., val |-> ...].          *)
(***************************************************************************)
Ok(v) == [err |-> FALSE, val |-> v]
Failed(zero) == [err |-> TRUE, val |-> zero]

\* utils.SetField: the field keeps its zero value when the getter fails
SetField(zero, result) == IF ~result.err THEN result.val ELSE zero

\* ProcessCollector.getProcessInfo
getProcessInfo(p) ==
    [ PID         |-> p.Pid,
      Name        |-> SetField(<<>>, p.Name),
      Username    |-> SetField(<<>>, p.Username),
      CommandLine |-> SetField("", p.Cmdline),
      NumThreads  |-> SetField(0, p.NumThreads),
      ThreadCount |-> 0,
      HandleCount |-> 0,
      MemoryUsage |-> IF ~p.MemoryInfo.err THEN p.MemoryInfo.val ELSE 0,
      Cwd         |-> SetField("", p.Cwd) ]

(***************************************************************************)
(* What the Process Source may report.  Attrs is a set of handle records   *)
(* without the Pid; an enumeration returns handles for any subset of PIDs. *)
(***************************************************************************)
Handle(pid, a) ==
    [ Pid |-> pid, Name |-> a.Name, Username |-> a.Username,
      Cmdline |-> a.Cmdline, NumThreads |-> a.NumThreads,
      MemoryInfo |-> a.MemoryInfo, Cwd |-> a.Cwd ]

\* the program as main starts it: processes whose command line varies
SourceAttrs ==
    [ Name       : {Ok(NameApp)},
      Username   : {Ok(UserPlain)},
      Cmdline    : {Ok("run"), Ok("run -x")},
      NumThreads : {Ok(5)},
      MemoryInfo : {Ok(10)},
      Cwd        : {Ok("/")} ]

\* the collector alone, watching one process whose every attribute varies;
\* a failing MemoryInfo leaves MemoryUsage at 0
TickPids == {1}

TickAttrs ==
    [ Name       : {Ok(NameApp), Ok(NameSvcUpper)},
      Username   : {Ok(UserPlain), Ok(UserRootUpper)},
      Cmdline    : {Ok("run"), Ok("run -x")},
      NumThreads : {Ok(5), Ok(8)},
      MemoryInfo : {Failed(0), Ok(10), Ok(12)},
      Cwd        : {Ok("/"), Ok("/tmp")} ]

(***************************************************************************)
(* config: ProcessFilter.ShouldMonitorProcess                              *)
(***************************************************************************)
\* a filter that forgets the excluded-user list
ShouldMonitorProcess_NoUserRule(c, info) ==
    LET processName == ToLower(info.Name)
        GlobAny(list) ==
            \E i \in 1..Len(list) : Match(ToLower(list[i]), processName).matched
    IN  IF GlobAny(c.ExcludedProcesses) THEN FALSE
        ELSE IF Len(c.IncludedProcesses) > 0 /\ ~GlobAny(c.IncludedProcesses) THEN FALSE
        ELSE TRUE

\* a filter in which a match in the include list wins over the exclude list
ShouldMonitorProcess_IncludeFirst(c, info) ==
    LET processName == ToLower(info.Name)
        username == ToLower(info.Username)
        GlobAny(list) ==
            \E i \in 1..Len(list) : Match(ToLower(list[i]), processName).matched
    IN  IF Len(c.IncludedProcesses) > 0 /\ ~GlobAny(c.IncludedProcesses) THEN FALSE
        ELSE IF Len(c.IncludedProcesses) = 0 /\ GlobAny(c.ExcludedProcesses) THEN FALSE
        ELSE IF \E i \in 1..Len(c.ExcludedUsers) : ToLower(c.ExcludedUsers[i]) = username
             THEN FALSE
        ELSE TRUE

\* ProcessFilter.ShouldMonitorProcess
ShouldMonitorProcess(c, info) ==
    LET processName == ToLower(info.Name)
        username == ToLower(info.Username)
        GlobAny(list) ==
            \E i \in 1..Len(list) : Match(ToLower(list[i]), processName).matched
    IN  IF GlobAny(c.ExcludedProcesses) THEN FALSE
        ELSE IF Len(c.IncludedProcesses) > 0 /\ ~GlobAny(c.IncludedProcesses) THEN FALSE
        ELSE IF \E i \in 1..Len(c.ExcludedUsers) : ToLower(c.ExcludedUsers[i]) = username
             THEN FALSE
        ELSE TRUE

(***************************************************************************)
(* collector: ProcessCollector.shouldMonitorProcess (the inlined copy)     *)
(***************************************************************************)
shouldMonitorProcess(c, info) ==
    LET processName == ToLower(info.Name)
    IN  IF \E i \in 1..Len(c.ExcludedProcesses) :
               LET m == Match(ToLower(c.ExcludedProcesses[i]), processName)
               IN  ~m.err /\ m.matched
        THEN FALSE
        ELSE IF \E i \in 1..Len(c.ExcludedProcesses) :
                    EqualFold(info.Name, c.ExcludedProcesses[i])
             THEN FALSE
        ELSE IF Len(c.IncludedProcesses) > 0
                /\ ~\E i \in 1..Len(c.IncludedProcesses) :
                        EqualFold(info.Name, c.IncludedProcesses[i])
             THEN FALSE
        ELSE IF \E i \in 1..Len(c.ExcludedUsers) :
                    EqualFold(info.Username, c.ExcludedUsers[i])
             THEN FALSE
        ELSE TRUE

(***************************************************************************)
(* collector: ProcessCollector.detectModifications                         *)
(***************************************************************************)
\* int32(math.Abs(float64(a - b))) on the small counts that occur
AbsDiff(a, b) == IF a >= b THEN a - b ELSE b - a

\* float64 arithmetic of the bounds: the thresholds t (in hundredths) for
\* which the float64 1 - t/100 is above the float64 nearest to (100 - t)/100,
\* and those for which the float64 1 + t/100 is below the float64 nearest to
\* (100 + t)/100.  For every other t in 0..100 the computed bound is the
\* nearest float64 or lies on the other side of it.
SubRoundsUp ==
    {18, 41, 42, 43, 57, 58, 59, 69, 70, 71, 82, 83, 84, 85} \cup (94..99)

AddRoundsDown == {36, 57, 59, 61, 82, 84, 86}

\* float64(new)/float64(old) compared with 1 -/+ threshold: a division by 0
\* gives +Inf for new > 0 and NaN for new = 0, and NaN compares false.  The
\* quotient is the float64 nearest to new/old; it differs from a bound by
\* far more than a rounding error unless new/old is exactly (100 -/+ t)/100,
\* and then the rounding of the bound decides.
MemoryChanged(c, old, new) ==
    IF c.MemoryChangeThreshold = NaN THEN FALSE
    ELSE IF old = 0 THEN new > 0
    ELSE LET t    == c.MemoryChangeThreshold
             low  == old * (100 - t)
             high == old * (100 + t)
         IN  \/ new * 100 < low
             \/ new * 100 = low /\ t \in SubRoundsUp
             \/ new * 100 > high
             \/ new * 100 = high /\ t \in AddRoundsDown

\* the reading of the k-th call of time.Now() at a place of the code for a PID
Now(site, pid, k) == <<site, pid, k>>

Modification(timestamp, new, modType, oldValue, newValue, description) ==
    [ Timestamp   |-> timestamp,
      ProcessID   |-> new.PID,
      ModType     |-> modType,
      OldValue    |-> <<oldValue>>,
      NewValue    |-> <<newValue>>,
      Description |-> description ]

detectModifications(c, old, new) ==
    IF ~shouldMonitorProcess(c, new) THEN <<>>
    ELSE
      LET timestamp == Now("detectModifications", new.PID, 1)
          threadDiff == AbsDiff(new.ThreadCount, old.ThreadCount)
          handleDiff == AbsDiff(new.HandleCount, old.HandleCount)
      IN
        (IF c.MonitorCommandLine /\ old.CommandLine # new.CommandLine
         THEN <<Modification(timestamp, new, "CommandLineChange", old.CommandLine,
                             new.CommandLine, <<"Command line modified">>)>>
         ELSE <<>>)
        \o
        (IF c.MonitorThreads /\ threadDiff >= c.ThreadChangeThreshold
         THEN <<Modification(timestamp, new, "ThreadCountChange", old.ThreadCount,
                             new.ThreadCount,
                             <<"Thread count changed by %d", threadDiff>>)>>
         ELSE <<>>)
        \o
        (IF c.MonitorHandles /\ handleDiff >= c.HandleChangeThreshold
         THEN <<Modification(timestamp, new, "HandleCountChange", old.HandleCount,
                             new.HandleCount,
                             <<"Handle count changed by %d", handleDiff>>)>>
         ELSE <<>>)
        \o
        (IF c.MonitorMemory /\ MemoryChanged(c, old.MemoryUsage, new.MemoryUsage)
         THEN <<Modification(timestamp, new, "MemoryModification", old.MemoryUsage,
                             new.MemoryUsage,
                             <<"Significant memory usage change">>)>>
         ELSE <<>>)
        \o
        (IF c.MonitorWorkingDir /\ old.Cwd # new.Cwd
         THEN <<Modification(timestamp, new, "WorkingDirectoryChange", old.Cwd, new.Cwd,
                             <<"Working directory changed">>)>>
         ELSE <<>>)

(***************************************************************************)
(* collector: getRunningProcesses                                          *)
(***************************************************************************)
\* an enumeration that keeps every process it could read, accepted or not
getRunningProcesses_Unfiltered(c, procs) ==
    [pid \in {p.Pid : p \in procs} |->
        getProcessInfo(CHOOSE p \in procs : p.Pid = pid)]

\* ProcessCollector.getRunningProcesses on a successful process.Processes():
\* procs is the set of handles returned, one per PID
getRunningProcesses(c, procs) ==
    LET kept == {p \in procs : ShouldMonitorProcess(c, getProcessInfo(p))}
    IN  [pid \in {p.Pid : p \in kept} |->
            getProcessInfo(CHOOSE p \in kept : p.Pid = pid)]

(***************************************************************************)
(* collector: the body of one tick of Monitor, lines 124-168               *)
(***************************************************************************)
Created(info) ==
    [ Type |-> "ProcessCreated", Timestamp |-> Now("ProcessCreated", info.PID, 1),
      Process |-> info, ModType |-> "MemoryModification", Description |-> <<>> ]

Terminated(info) ==
    [ Type |-> "ProcessTerminated", Timestamp |-> Now("ProcessTerminated", info.PID, 1),
      Process |-> info, ModType |-> "MemoryModification", Description |-> <<>> ]

\* a Monitor that stamps each Modified event when it sends it; mod is the
\* only record of its kind in the list, so the kind numbers the call
Modified_StampedAtSend(info, mod) ==
    [ Type |-> "ProcessModified",
      Timestamp |-> Now("ProcessModified " \o mod.ModType, info.PID, 1),
      Process |-> info, ModType |-> mod.ModType, Description |-> mod.Description ]

Modified(info, mod) ==
    [ Type |-> "ProcessModified", Timestamp |-> mod.Timestamp,
      Process |-> info, ModType |-> mod.ModType, Description |-> mod.Description ]

\* a loop over newSnapshot that does not look the PID up in the retained
\* snapshot and reports every accepted process as created
EventsForNew_NoLookup(c, old, new, pid) ==
    IF ShouldMonitorProcess(c, new[pid]) THEN <<Created(new[pid])>> ELSE <<>>

\* one iteration of the loop over newSnapshot (lines 124-153)
EventsForNew(c, old, new, pid) ==
    LET newInfo == new[pid]
    IN  IF pid \in DOMAIN old
        THEN IF ShouldMonitorProcess(c, newInfo)
             THEN LET mods == detectModifications(c, old[pid], newInfo)
                  IN  [i \in 1..Len(mods) |-> Modified(newInfo, mods[i])]
             ELSE <<>>
        ELSE IF ShouldMonitorProcess(c, newInfo)
             THEN <<Created(newInfo)>>
             ELSE <<>>

\* the loop over pc.currentProcesses without the lookup in newSnapshot
EventsForOld_NoLookup(c, old, new, pid) ==
    IF ShouldMonitorProcess(c, old[pid])
    THEN <<Terminated(old[pid])>>
    ELSE <<>>

\* one iteration of the loop over pc.currentProcesses (lines 156-168)
EventsForOld(c, old, new, pid) ==
    IF pid \notin DOMAIN new
    THEN IF ShouldMonitorProcess(c, old[pid])
         THEN <<Terminated(old[pid])>>
         ELSE <<>>
    ELSE <<>>

\* the orders in which a range over a map with key set S may run
Orders(S) ==
    {o \in [1..Cardinality(S) -> S] : \A i, j \in DOMAIN o : i # j => o[i] # o[j]}

\* the loop over newSnapshot (lines 124-153), visiting the keys in order
RECURSIVE NewLoop(_, _, _, _)
NewLoop(c, old, new, order) ==
    IF order = <<>> THEN <<>>
    ELSE EventsForNew(c, old, new, Head(order)) \o NewLoop(c, old, new, Tail(order))

\* the loop over pc.currentProcesses (lines 156-168), visiting the keys in order
RECURSIVE OldLoop(_, _, _, _)
OldLoop(c, old, new, order) ==
    IF order = <<>> THEN <<>>
    ELSE EventsForOld(c, old, new, Head(order)) \o OldLoop(c, old, new, Tail(order))

\* every event the tick sends, in sending order, for given iteration orders
TickEvents(c, old, new, orderNew, orderOld) ==
    NewLoop(c, old, new, orderNew) \o OldLoop(c, old, new, orderOld)

(***************************************************************************)
(* The program: main starts Monitor and processEventLoop, then waits for   *)
(* the interrupt signal and calls Stop.                                    *)
(***************************************************************************)
Init ==
    /\ config = DefaultConfig
    /\ currentProcesses = EmptySnapshot
    /\ mutex = FALSE
    /\ events = <<>>
    /\ cancelled = FALSE
    /\ tickPending = FALSE
    /\ pcMonitor = "select"
    /\ newSnapshot = EmptySnapshot
    /\ pending = <<>>
    /\ tickSent = <<>>
    /\ enumErr = FALSE
    /\ polled = {}
    /\ live = {}
    /\ pcConsumer = "select"
    /\ pcMain = "running"
    /\ wg = 2

\* the runtime puts a tick into ticker.C (capacity 1) unless one is waiting.
\* Only Monitor's select reads ticker.C, so a tick delivered while Monitor is
\* busy is modelled as delivered when Monitor is back at the select.
TimerFire ==
    /\ pcMonitor = "select"
    /\ ~tickPending
    /\ tickPending' = TRUE
    /\ UNCHANGED <<live, config, currentProcesses, mutex, events, cancelled, pcMonitor,
                   newSnapshot, pending, tickSent, enumErr, pcConsumer, pcMain, wg, polled>>

\* a Monitor that also gives up in the middle of a tick's sends
MonitorSelectDone_MidTick ==
    /\ pcMonitor \in {"select", "send"}
    /\ cancelled
    /\ pcMonitor' = "returned"
    /\ wg' = wg - 1
    /\ UNCHANGED <<live, config, currentProcesses, mutex, events, cancelled, tickPending,
                   newSnapshot, pending, tickSent, enumErr, pcConsumer, pcMain, polled>>

\* Monitor, line 113: select takes <-ctx.Done() and returns
MonitorSelectDone ==
    /\ pcMonitor = "select"
    /\ cancelled
    /\ pcMonitor' = "returned"
    /\ wg' = wg - 1
    /\ UNCHANGED <<live, config, currentProcesses, mutex, events, cancelled, tickPending,
                   newSnapshot, pending, tickSent, enumErr, pcConsumer, pcMain, polled>>

\* Monitor, line 115: select takes <-ticker.C; a tick starts
MonitorSelectTick ==
    /\ pcMonitor = "select"
    /\ tickPending
    /\ tickPending' = FALSE
    /\ pcMonitor' = "enumerate"
    /\ UNCHANGED <<live, config, currentProcesses, mutex, events, cancelled, newSnapshot,
                   pending, tickSent, enumErr, pcConsumer, pcMain, wg, polled>>

\* an enumeration that fills the retained map in place
MonitorEnumerate_InPlace(pids, attrs) ==
    /\ pcMonitor = "enumerate"
    /\ \E S \in SUBSET pids : \E f \in [S -> attrs] :
           polled' = {Handle(pid, f[pid]) : pid \in S}
    /\ newSnapshot' = getRunningProcesses(config, polled')
    /\ currentProcesses' = newSnapshot'
    /\ enumErr' = FALSE
    /\ pcMonitor' = "enumerated"
    /\ UNCHANGED <<live, config, mutex, events, cancelled, tickPending,
                   pending, tickSent, pcConsumer, pcMain, wg>>

\* Monitor, line 116: getRunningProcesses returns (nil, err) when
\* process.Processes() fails, else the filtered snapshot.  The source reports
\* processes with PIDs among pids and attributes among attrs.
MonitorEnumerate(pids, attrs) ==
    /\ pcMonitor = "enumerate"
    /\ \/ /\ polled' = {}
          /\ newSnapshot' = EmptySnapshot
          /\ enumErr' = TRUE
       \/ /\ \E S \in SUBSET pids : \E f \in [S -> attrs] :
                 polled' = {Handle(pid, f[pid]) : pid \in S}
          /\ newSnapshot' = getRunningProcesses(config, polled')
          /\ enumErr' = FALSE
    /\ pcMonitor' = "enumerated"
    /\ UNCHANGED <<live, config, currentProcesses, mutex, events, cancelled, tickPending,
                   pending, tickSent, pcConsumer, pcMain, wg>>

\* a Monitor that takes a failed enumeration for an empty one
MonitorSkipTick_AsEmpty ==
    /\ pcMonitor = "enumerated"
    /\ enumErr
    /\ enumErr' = FALSE
    /\ currentProcesses' = newSnapshot
    /\ pcMonitor' = "select"
    /\ polled' = {}
    /\ UNCHANGED <<live, config, mutex, events, cancelled, tickPending, newSnapshot,
                   pending, tickSent, pcConsumer, pcMain, wg>>

\* Monitor, lines 117-119: err != nil, continue
MonitorSkipTick ==
    /\ pcMonitor = "enumerated"
    /\ enumErr
    /\ enumErr' = FALSE
    /\ pcMonitor' = "select"
    /\ polled' = {}
    /\ UNCHANGED <<live, config, currentProcesses, mutex, events, cancelled, tickPending,
                   newSnapshot, pending, tickSent, pcConsumer, pcMain, wg>>

\* Monitor, line 121, and the two loops' work for the map iteration orders
\* the runtime picks; the sends themselves are MonitorSend
MonitorLock ==
    /\ pcMonitor = "enumerated"
    /\ ~enumErr
    /\ ~mutex
    /\ mutex' = TRUE
    /\ \E orderNew \in Orders(DOMAIN newSnapshot) :
       \E orderOld \in Orders(DOMAIN currentProcesses) :
           pending' = TickEvents(config, currentProcesses, newSnapshot,
                                 orderNew, orderOld)
    /\ tickSent' = <<>>
    /\ pcMonitor' = "send"
    /\ UNCHANGED <<live, config, currentProcesses, events, cancelled, tickPending,
                   newSnapshot, enumErr, pcConsumer, pcMain, wg, polled>>

\* Monitor, lines 131, 145, 159: pc.events <- event blocks while the buffer is full
MonitorSend(cap) ==
    /\ pcMonitor = "send"
    /\ pending # <<>>
    /\ Len(events) < cap
    /\ events' = Append(events, Head(pending))
    /\ tickSent' = Append(tickSent, Head(pending))
    /\ pending' = Tail(pending)
    /\ live' = CASE Head(pending).Type = "ProcessCreated"
                      -> live \cup {Head(pending).Process.PID}
                  [] Head(pending).Type = "ProcessTerminated"
                      -> live \ {Head(pending).Process.PID}
                  [] OTHER -> live
    /\ UNCHANGED <<config, currentProcesses, mutex, cancelled, tickPending,
                   pcMonitor, newSnapshot, enumErr, pcConsumer, pcMain, wg, polled>>

\* a tick that ends without pc.mutex.Unlock()
MonitorReplace_NoUnlock ==
    /\ pcMonitor = "send"
    /\ pending = <<>>
    /\ currentProcesses' = newSnapshot
    /\ newSnapshot' = EmptySnapshot
    /\ tickSent' = <<>>
    /\ pcMonitor' = "select"
    /\ polled' = {}
    /\ UNCHANGED <<live, config, mutex, events, cancelled, tickPending, pending,
                   enumErr, pcConsumer, pcMain, wg>>

\* a Monitor that keeps the retained snapshot when a poll finds no process
MonitorReplace_KeepWhenEmpty ==
    /\ pcMonitor = "send"
    /\ pending = <<>>
    /\ currentProcesses' = IF newSnapshot = EmptySnapshot THEN currentProcesses
                           ELSE newSnapshot
    /\ newSnapshot' = EmptySnapshot
    /\ tickSent' = <<>>
    /\ mutex' = FALSE
    /\ pcMonitor' = "select"
    /\ polled' = {}
    /\ UNCHANGED <<live, config, events, cancelled, tickPending, pending, enumErr,
                   pcConsumer, pcMain, wg>>

\* Monitor, lines 170-171: replace the retained snapshot, unlock, loop
MonitorReplace ==
    /\ pcMonitor = "send"
    /\ pending = <<>>
    /\ currentProcesses' = newSnapshot
    /\ newSnapshot' = EmptySnapshot
    /\ tickSent' = <<>>
    /\ mutex' = FALSE
    /\ pcMonitor' = "select"
    /\ polled' = {}
    /\ UNCHANGED <<live, config, events, cancelled, tickPending, pending, enumErr,
                   pcConsumer, pcMain, wg>>

\* processEventLoop, line 85: select takes <-pm.ctx.Done() and returns
ConsumerSelectDone ==
    /\ pcConsumer = "select"
    /\ cancelled
    /\ pcConsumer' = "returned"
    /\ wg' = wg - 1
    /\ UNCHANGED <<live, config, currentProcesses, mutex, events, cancelled, tickPending,
                   pcMonitor, newSnapshot, pending, tickSent, enumErr, pcMain, polled>>

\* a consumer that takes the newest event of the channel
ConsumerReceive_Newest ==
    /\ pcConsumer = "select"
    /\ events # <<>>
    /\ events' = SubSeq(events, 1, Len(events) - 1)
    /\ UNCHANGED <<live, config, currentProcesses, mutex, cancelled, tickPending,
                   pcMonitor, newSnapshot, pending, tickSent, enumErr, pcConsumer,
                   pcMain, wg, polled>>

\* processEventLoop, lines 87-106: receive one event and log its line
ConsumerReceive ==
    /\ pcConsumer = "select"
    /\ events # <<>>
    /\ events' = Tail(events)
    /\ UNCHANGED <<live, config, currentProcesses, mutex, cancelled, tickPending,
                   pcMonitor, newSnapshot, pending, tickSent, enumErr, pcConsumer,
                   pcMain, wg, polled>>

\* main, lines 153-155, and Stop, line 71: the signal arrives, pm.cancel()
StopCancel ==
    /\ pcMain = "running"
    /\ cancelled' = TRUE
    /\ pcMain' = "waiting"
    /\ UNCHANGED <<live, config, currentProcesses, mutex, events, tickPending, pcMonitor,
                   newSnapshot, pending, tickSent, enumErr, pcConsumer, wg, polled>>

\* a Stop that returns after pm.cancel() without pm.wg.Wait()
StopWait_NoWait ==
    /\ pcMain = "waiting"
    /\ pcMain' = "returned"
    /\ UNCHANGED <<live, config, currentProcesses, mutex, events, cancelled,
                   tickPending, pcMonitor, newSnapshot, pending, tickSent, enumErr,
                   pcConsumer, wg, polled>>

\* Stop, line 72: pm.wg.Wait() returns
StopWait ==
    /\ pcMain = "waiting"
    /\ wg = 0
    /\ pcMain' = "returned"
    /\ UNCHANGED <<live, config, currentProcesses, mutex, events, cancelled, tickPending,
                   pcMonitor, newSnapshot, pending, tickSent, enumErr, pcConsumer, wg, polled>>

Next ==
    \/ TimerFire
    \/ MonitorSelectDone
    \/ MonitorSelectTick
    \/ MonitorEnumerate(PIDs, SourceAttrs)
    \/ MonitorSkipTick
    \/ MonitorLock
    \/ MonitorSend(ChanCap)
    \/ MonitorReplace
    \/ ConsumerSelectDone
    \/ ConsumerReceive
    \/ StopCancel
    \/ StopWait

Spec == Init /\ [][Next]_vars

\* the steps of the Monitor goroutine
MonitorStep ==
    \/ MonitorSelectDone
    \/ MonitorSelectTick
    \/ MonitorEnumerate(PIDs, SourceAttrs)
    \/ MonitorSkipTick
    \/ MonitorLock
    \/ MonitorSend(ChanCap)
    \/ MonitorReplace

(***************************************************************************)
(* The collector and the consumer without cancellation, under any          *)
(* configuration Validate accepts, watching one process whose every        *)
(* attribute varies from poll to poll.  The consumer keeps up: it receives *)
(* each event before Monitor takes its next step.                          *)
(***************************************************************************)
CollectorInit ==
    /\ config \in ValidConfigs
    /\ currentProcesses = EmptySnapshot
    /\ mutex = FALSE
    /\ events = <<>>
    /\ cancelled = FALSE
    /\ tickPending = FALSE
    /\ pcMonitor = "select"
    /\ newSnapshot = EmptySnapshot
    /\ pending = <<>>
    /\ tickSent = <<>>
    /\ enumErr = FALSE
    /\ polled = {}
    /\ live = {}
    /\ pcConsumer = "select"
    /\ pcMain = "running"
    /\ wg = 2

CollectorNext ==
    \/ (events = <<>> /\ TimerFire)
    \/ (events = <<>> /\ MonitorSelectTick)
    \/ (events = <<>> /\ MonitorEnumerate(TickPids, TickAttrs))
    \/ (events = <<>> /\ MonitorSkipTick)
    \/ (events = <<>> /\ MonitorLock)
    \/ (events = <<>> /\ MonitorSend(ChanCap))
    \/ (events = <<>> /\ MonitorReplace)
    \/ ConsumerReceive

CollectorSpec == CollectorInit /\ [][CollectorNext]_vars

(***************************************************************************)
(* The collector and a consumer that may lag behind, without cancellation, *)
(* on a channel with room for one event more, so that several events of    *)
(* one tick or of two ticks wait in the channel together.                  *)
(***************************************************************************)
\* processes that start and exit and do not change otherwise
BacklogAttrs ==
    [ Name       : {Ok(NameApp)},
      Username   : {Ok(UserPlain)},
      Cmdline    : {Ok("run")},
      NumThreads : {Ok(5)},
      MemoryInfo : {Ok(10)},
      Cwd        : {Ok("/")} ]

BacklogNext ==
    \/ TimerFire
    \/ MonitorSelectTick
    \/ MonitorEnumerate(PIDs, BacklogAttrs)
    \/ MonitorSkipTick
    \/ MonitorLock
    \/ MonitorSend(ChanCap + 1)
    \/ MonitorReplace
    \/ ConsumerReceive

BacklogSpec == Init /\ [][BacklogNext]_vars

(***************************************************************************)
(* The collector on its own with the memory detector under varying         *)
(* thresholds: configurations that Validate accepts with thresholds 0.1,   *)
(* 0.36 and 0.7, memory monitoring on or off, with and without an include  *)
(* list; one process whose resident set size varies between polls.         *)
(***************************************************************************)
MemoryConfigs ==
    [ PollInterval          : {1000},
      MemoryChangeThreshold : {10, 36, 70},
      CPUThreshold          : {75},
      ThreadChangeThreshold : {2},
      HandleChangeThreshold : {10},
      MonitorCommandLine    : {TRUE},
      MonitorMemory         : BOOLEAN,
      MonitorThreads        : {TRUE},
      MonitorHandles        : {TRUE},
      MonitorWorkingDir     : {TRUE},
      ExcludedProcesses     : {<<NameSvc, NameBroker>>},
      IncludedProcesses     : {<<>>, <<PatternApp>>},
      ExcludedUsers         : {<<UserRoot>>} ]

MemoryAttrs ==
    [ Name       : {Ok(NameApp)},
      Username   : {Ok(UserPlain)},
      Cmdline    : {Ok("run")},
      NumThreads : {Ok(5)},
      MemoryInfo : {Failed(0), Ok(3), Ok(9), Ok(10), Ok(11), Ok(12), Ok(25), Ok(34)},
      Cwd        : {Ok("/")} ]

MemoryInit ==
    /\ config \in {c \in MemoryConfigs : Validate(c)}
    /\ currentProcesses = EmptySnapshot
    /\ mutex = FALSE
    /\ events = <<>>
    /\ cancelled = FALSE
    /\ tickPending = FALSE
    /\ pcMonitor = "select"
    /\ newSnapshot = EmptySnapshot
    /\ pending = <<>>
    /\ tickSent = <<>>
    /\ enumErr = FALSE
    /\ polled = {}
    /\ live = {}
    /\ pcConsumer = "select"
    /\ pcMain = "running"
    /\ wg = 2

MemoryNext ==
    \/ (events = <<>> /\ TimerFire)
    \/ (events = <<>> /\ MonitorSelectTick)
    \/ (events = <<>> /\ MonitorEnumerate(TickPids, MemoryAttrs))
    \/ (events = <<>> /\ MonitorSkipTick)
    \/ (events = <<>> /\ MonitorLock)
    \/ (events = <<>> /\ MonitorSend(ChanCap))
    \/ (events = <<>> /\ MonitorReplace)
    \/ ConsumerReceive

MemorySpec == MemoryInit /\ [][MemoryNext]_vars

(***************************************************************************)
(* The filter under configurations whose three lists vary in content and   *)
(* order, watching one process whose name and user vary.                   *)
(***************************************************************************)
\* a malformed glob: filepath.Match answers ErrBadPattern
PatternBad == <<"[">>

FilterConfigs ==
    [ PollInterval          : {1000},
      MemoryChangeThreshold : {10},
      CPUThreshold          : {75},
      ThreadChangeThreshold : {2},
      HandleChangeThreshold : {10},
      MonitorCommandLine    : {TRUE},
      MonitorMemory         : {TRUE},
      MonitorThreads        : {TRUE},
      MonitorHandles        : {TRUE},
      MonitorWorkingDir     : {TRUE},
      ExcludedProcesses     : {<<>>, <<NameSvc, NameBroker>>, <<NameBroker, NameSvc>>,
                               <<PatternBad, NameSvc>>},
      IncludedProcesses     : {<<>>, <<PatternApp>>, <<PatternApp, NameSvc>>,
                               <<NameSvc, PatternApp>>},
      ExcludedUsers         : {<<>>, <<UserRoot>>, <<UserPlain, UserRoot>>} ]

FilterAttrs ==
    [ Name       : {Ok(NameApp), Ok(NameSvcUpper), Ok(NameBroker), Failed(<<>>)},
      Username   : {Ok(UserPlain), Ok(UserRootUpper)},
      Cmdline    : {Ok("run")},
      NumThreads : {Ok(5)},
      MemoryInfo : {Ok(10)},
      Cwd        : {Ok("/")} ]

FilterInit ==
    /\ config \in FilterConfigs
    /\ currentProcesses = EmptySnapshot
    /\ mutex = FALSE
    /\ events = <<>>
    /\ cancelled = FALSE
    /\ tickPending = FALSE
    /\ pcMonitor = "select"
    /\ newSnapshot = EmptySnapshot
    /\ pending = <<>>
    /\ tickSent = <<>>
    /\ enumErr = FALSE
    /\ polled = {}
    /\ live = {}
    /\ pcConsumer = "select"
    /\ pcMain = "running"
    /\ wg = 2

FilterNext ==
    \/ (events = <<>> /\ TimerFire)
    \/ (events = <<>> /\ MonitorSelectTick)
    \/ (events = <<>> /\ MonitorEnumerate(TickPids, FilterAttrs))
    \/ (events = <<>> /\ MonitorSkipTick)
    \/ (events = <<>> /\ MonitorLock)
    \/ (events = <<>> /\ MonitorSend(ChanCap))
    \/ (events = <<>> /\ MonitorReplace)
    \/ ConsumerReceive

FilterSpec == FilterInit /\ [][FilterNext]_vars

(***************************************************************************)
(* Start-up: what LoadConfig does with the content of a configuration      *)
(* file, and what main does.  config holds LoadConfig's local config after *)
(* yaml.Unmarshal has written the file's values over the defaults.         *)
(* PollInterval is in milliseconds, the two ratio thresholds in percent.   *)
(***************************************************************************)
FileConfigs ==
    [ PollInterval          : {99, 100, 1000},
      MemoryChangeThreshold : {NaN, 0, 10, 100, 101},
      CPUThreshold          : {NaN, 0, 75, 100, 101},
      ThreadChangeThreshold : {-1, 0, 2},
      HandleChangeThreshold : {-1, 0, 10},
      MonitorCommandLine    : {TRUE},
      MonitorMemory         : {TRUE},
      MonitorThreads        : {TRUE},
      MonitorHandles        : {TRUE},
      MonitorWorkingDir     : {TRUE},
      ExcludedProcesses     : {<<NameSvc, NameBroker>>},
      IncludedProcesses     : {<<>>},
      ExcludedUsers         : {<<UserRoot>>} ]

StartupInit ==
    /\ config \in FileConfigs
    /\ currentProcesses = EmptySnapshot
    /\ mutex = FALSE
    /\ events = <<>>
    /\ cancelled = FALSE
    /\ tickPending = FALSE
    /\ pcMonitor = "notstarted"
    /\ newSnapshot = EmptySnapshot
    /\ pending = <<>>
    /\ tickSent = <<>>
    /\ enumErr = FALSE
    /\ polled = {}
    /\ live = {}
    /\ pcConsumer = "notstarted"
    /\ pcMain = "main"
    /\ wg = 0

\* LoadConfig, lines 48-51: os.ReadFile fails
LoadConfigUnreadable ==
    /\ pcMain = "main"
    /\ pcMain' = "unreadable"
    /\ UNCHANGED <<live, config, currentProcesses, mutex, events, cancelled, tickPending,
                   pcMonitor, newSnapshot, pending, tickSent, enumErr, polled,
                   pcConsumer, wg>>

\* LoadConfig, lines 58-62: Validate decides between (config, nil) and (nil, err)
LoadConfig ==
    /\ pcMain = "main"
    /\ pcMain' = IF Validate(config) THEN "loaded" ELSE "rejected"
    /\ UNCHANGED <<live, config, currentProcesses, mutex, events, cancelled, tickPending,
                   pcMonitor, newSnapshot, pending, tickSent, enumErr, polled,
                   pcConsumer, wg>>

\* main, lines 144-149: no file is read; DefaultConfig goes to
\* NewProcessMonitor and Start launches Monitor and processEventLoop
MainStart ==
    /\ pcMain = "main"
    /\ config' = DefaultConfig
    /\ pcMonitor' = "select"
    /\ pcConsumer' = "select"
    /\ wg' = 2
    /\ pcMain' = "running"
    /\ UNCHANGED <<live, currentProcesses, mutex, events, cancelled, tickPending,
                   newSnapshot, pending, tickSent, enumErr, polled>>

StartupNext ==
    \/ LoadConfigUnreadable
    \/ LoadConfig
    \/ MainStart

StartupSpec == StartupInit /\ [][StartupNext]_vars

(***************************************************************************)
(* Properties                                                              *)
(***************************************************************************)
Range(s) == {s[i] : i \in DOMAIN s}

\* every event of the tick in progress: those sent and those still to send
TickAll == tickSent \o pending

\* how many events of the given type the tick in progress has for pid
CountOf(type, pid) ==
    Cardinality({i \in DOMAIN TickAll :
                    TickAll[i].Type = type /\ TickAll[i].Process.PID = pid})

\* C1 (snapshot partition): in a successful tick the retained snapshot and
\* the new snapshot split the PIDs into created, terminated and present in
\* both; the tick has exactly one Created event and nothing else for a
\* created PID, exactly one Terminated event and nothing else for a
\* terminated PID, only Modified events for a PID in both, and no event
\* for a PID in neither.
C1_SnapshotPartition ==
    pcMonitor = "send" =>
        LET prev == DOMAIN currentProcesses
            cur  == DOMAIN newSnapshot
        IN  /\ \A e \in Range(TickAll) : e.Process.PID \in prev \cup cur
            /\ \A pid \in cur \ prev :
                  /\ CountOf("ProcessCreated", pid) = 1
                  /\ CountOf("ProcessTerminated", pid) = 0
                  /\ CountOf("ProcessModified", pid) = 0
            /\ \A pid \in prev \ cur :
                  /\ CountOf("ProcessCreated", pid) = 0
                  /\ CountOf("ProcessTerminated", pid) = 1
                  /\ CountOf("ProcessModified", pid) = 0
            /\ \A pid \in prev \cap cur :
                  /\ CountOf("ProcessCreated", pid) = 0
                  /\ CountOf("ProcessTerminated", pid) = 0

\* a tick that has sent all its events, with a created PID, a terminated
\* PID and nothing left to send
C1_Witness ==
    /\ pcMonitor = "send"
    /\ pending = <<>>
    /\ DOMAIN newSnapshot \ DOMAIN currentProcesses # {}
    /\ DOMAIN currentProcesses \ DOMAIN newSnapshot # {}
    /\ Len(tickSent) = 2

\* the three rejection rules of the filter: the name matches an excluded
\* pattern, or an include list exists and the name matches none of its
\* patterns, or the user is an excluded user; all ignoring case
NameMatchesAny(list, name) ==
    \E i \in 1..Len(list) : Match(ToLower(list[i]), ToLower(name)).matched

FilterRejects(c, info) ==
    \/ NameMatchesAny(c.ExcludedProcesses, info.Name)
    \/ c.IncludedProcesses # <<>> /\ ~NameMatchesAny(c.IncludedProcesses, info.Name)
    \/ \E i \in 1..Len(c.ExcludedUsers) :
           ToLower(c.ExcludedUsers[i]) = ToLower(info.Username)

\* C2 (filter monotonicity): the retained snapshot never holds a process
\* the filter rejects, and a tick has no event, sent or to send, for a PID
\* that is not retained and that the filter rejects as polled in this tick,
\* whatever its other fields are.  So a PID rejected at every poll is never
\* retained and never has an event on the channel.
C2_FilterMonotonicity ==
    /\ \A pid \in DOMAIN currentProcesses :
           ~FilterRejects(config, currentProcesses[pid])
    /\ \A e \in Range(events) : ~FilterRejects(config, e.Process)
    /\ pcMonitor = "send" =>
           \A p \in polled :
               (p.Pid \notin DOMAIN currentProcesses
                   /\ FilterRejects(config, getProcessInfo(p)))
               => \A e \in Range(TickAll) \cup Range(events) :
                      e.Process.PID # p.Pid

\* a finished tick that polled a new process the filter rejects (here by
\* its user or by its name) and sent nothing
C2_Witness ==
    /\ pcMonitor = "send"
    /\ pending = <<>>
    /\ tickSent = <<>>
    /\ \E p \in polled :
           /\ p.Pid \notin DOMAIN currentProcesses
           /\ FilterRejects(config, getProcessInfo(p))

\* C3 (enumeration failure aborts only the current tick): a tick whose
\* enumeration failed has sent nothing, and the step Monitor takes from it
\* goes back to waiting for the next tick (the loop goes on) with the
\* retained snapshot, the channel and the lock as they were; the next tick
\* then diffs against that retained snapshot.
C3_EnumerationFailureSkipsTick ==
    /\ [](pcMonitor = "enumerated" /\ enumErr => tickSent = <<>> /\ pending = <<>>)
    /\ [][(pcMonitor = "enumerated" /\ enumErr /\ pcMonitor' # pcMonitor)
            => /\ pcMonitor' = "select"
               /\ currentProcesses' = currentProcesses
               /\ events' = events
               /\ mutex' = mutex]_vars

\* an enumeration has failed while the retained snapshot holds processes
C3_Witness ==
    /\ pcMonitor = "enumerated"
    /\ enumErr
    /\ currentProcesses # EmptySnapshot

\* C4 (unconditional replacement): the step that ends a successful tick
\* makes the retained snapshot equal to that tick's filtered enumeration,
\* the empty one included; a tick whose enumeration is empty has exactly
\* one Terminated event for every retained PID and no other event.
C4_UnconditionalReplacement ==
    /\ [][(pcMonitor = "send" /\ pcMonitor' # "send")
            => currentProcesses' = newSnapshot]_vars
    /\ [](pcMonitor = "send" /\ newSnapshot = EmptySnapshot
            => /\ Len(TickAll) = Cardinality(DOMAIN currentProcesses)
               /\ \A pid \in DOMAIN currentProcesses :
                      CountOf("ProcessTerminated", pid) = 1)

\* a tick over an empty enumeration that has sent a Terminated event for
\* each of the retained processes and is about to replace the snapshot
C4_Witness ==
    /\ pcMonitor = "send"
    /\ pending = <<>>
    /\ newSnapshot = EmptySnapshot
    /\ Cardinality(DOMAIN currentProcesses) = 2
    /\ Len(tickSent) = 2

\* C5 (termination on cancellation): once cancellation is signalled Monitor
\* can always go on until it returns.  Only the consumer receives from the
\* channel, so when the consumer has returned, a Monitor that has not
\* returned and has no step to take is blocked for ever and Stop, which
\* waits for it, never returns.
C5_MonitorNeverBlockedForever ==
    (cancelled /\ pcConsumer = "returned")
        => (pcMonitor = "returned" \/ ENABLED MonitorStep)

\* C6 (no event loss): every event sent on the channel is received, the
\* events buffered at cancellation included; so the consumer never returns
\* leaving an event in the channel.
C6_NoEventLoss ==
    pcConsumer = "returned" => events = <<>>

\* C7 (lock scope): the mutex is not held while Monitor enumerates and not
\* held while Monitor has an event to send on the channel.
C7_LockScope ==
    mutex => /\ pcMonitor # "enumerate"
             /\ ~(pcMonitor = "send" /\ pending # <<>>)

\* C8 (cancellation before a new tick): once cancellation is signalled
\* Monitor starts no tick, not even when a tick of the timer is waiting
\* at the moment Monitor looks at both.
C8_NoTickAfterCancellation ==
    [][(cancelled /\ pcMonitor = "select") => pcMonitor' # "enumerate"]_vars

\* C9 (idempotence of the diff on equal snapshots): under any configuration
\* Validate accepts, a tick whose new snapshot equals the retained snapshot
\* has no event at all.
C9_EqualSnapshotsNoEvents ==
    (pcMonitor = "send" /\ newSnapshot = currentProcesses) => TickAll = <<>>

\* C10 (thread-count threshold boundary): with thread monitoring enabled, a
\* PID in both snapshots has a ThreadCountChange event in the tick exactly
\* when the thread counts the Process Source reported at the two polls
\* differ by at least ThreadChangeThreshold.
C10_ThreadCountThreshold ==
    (pcMonitor = "send" /\ config.MonitorThreads) =>
        \A pid \in DOMAIN currentProcesses \cap DOMAIN newSnapshot :
            (\E e \in Range(TickAll) :
                 /\ e.Type = "ProcessModified"
                 /\ e.ModType = "ThreadCountChange"
                 /\ e.Process.PID = pid)
            <=> AbsDiff(newSnapshot[pid].NumThreads, currentProcesses[pid].NumThreads)
                    >= config.ThreadChangeThreshold

\* the tick in progress has a Modified event of the given kind for pid
HasModification(pid, modType) ==
    \E e \in Range(TickAll) :
        /\ e.Type = "ProcessModified"
        /\ e.ModType = modType
        /\ e.Process.PID = pid

\* C11 (memory zero-guard): with memory monitoring enabled, a PID in both
\* snapshots whose memory usage was 0 and is now above 0 has a
\* MemoryModification event in the tick.
C11_MemoryZeroGuard ==
    (pcMonitor = "send" /\ config.MonitorMemory) =>
        \A pid \in DOMAIN currentProcesses \cap DOMAIN newSnapshot :
            (currentProcesses[pid].MemoryUsage = 0 /\ newSnapshot[pid].MemoryUsage > 0)
                => HasModification(pid, "MemoryModification")

\* C12 (the diff does not filter again): Monitor's inlined predicate accepts
\* every member of a snapshot, and with command-line monitoring enabled a
\* PID in both snapshots whose command line differs has a CommandLineChange
\* event in the tick, whatever the filter lists hold.
C12_DiffDoesNotRefilter ==
    pcMonitor = "send" =>
        /\ \A pid \in DOMAIN newSnapshot :
               shouldMonitorProcess(config, newSnapshot[pid])
        /\ config.MonitorCommandLine =>
               \A pid \in DOMAIN currentProcesses \cap DOMAIN newSnapshot :
                   currentProcesses[pid].CommandLine # newSnapshot[pid].CommandLine
                       => HasModification(pid, "CommandLineChange")

\* C13 (filter rule order): the filter rejects exactly when the name matches
\* an excluded pattern, or an include list exists and the name matches none
\* of its patterns, or the user is an excluded user, all ignoring case; so
\* exclusion wins over inclusion.  The answer is the same with every list
\* reversed, and the same info under the same configuration always gets the
\* same answer: what a poll keeps is what the filter accepts of what it polled.
ReverseSeq(s) == [i \in 1..Len(s) |-> s[Len(s) + 1 - i]]

ReverseLists(c) ==
    [c EXCEPT !.ExcludedProcesses = ReverseSeq(c.ExcludedProcesses),
              !.IncludedProcesses = ReverseSeq(c.IncludedProcesses),
              !.ExcludedUsers = ReverseSeq(c.ExcludedUsers)]

C13_FilterRuleOrder ==
    \A p \in polled :
        LET info == getProcessInfo(p)
        IN  /\ ShouldMonitorProcess(config, info) <=> ~FilterRejects(config, info)
            /\ ShouldMonitorProcess(config, info)
                   <=> ShouldMonitorProcess(ReverseLists(config), info)
            /\ pcMonitor \in {"enumerated", "send"} =>
                   (p.Pid \in DOMAIN newSnapshot <=> ~FilterRejects(config, info))

\* a poll has dropped a process whose name is in the include list and also
\* matches an excluded pattern, and whose user is not excluded
C13_Witness ==
    /\ pcMonitor = "enumerated"
    /\ newSnapshot = EmptySnapshot
    /\ \E p \in polled :
           LET info == getProcessInfo(p)
           IN  /\ NameMatchesAny(config.IncludedProcesses, info.Name)
               /\ NameMatchesAny(config.ExcludedProcesses, info.Name)
               /\ \A i \in 1..Len(config.ExcludedUsers) :
                      ToLower(config.ExcludedUsers[i]) # ToLower(info.Username)

\* the ranges a configuration must be in: poll interval at least 100 ms,
\* memory and CPU thresholds numbers in (0, 1], thread and handle thresholds
\* not negative
InRange(c) ==
    /\ c.PollInterval >= 100
    /\ c.MemoryChangeThreshold # NaN
    /\ c.MemoryChangeThreshold > 0 /\ c.MemoryChangeThreshold <= 100
    /\ c.CPUThreshold # NaN
    /\ c.CPUThreshold > 0 /\ c.CPUThreshold <= 100
    /\ c.ThreadChangeThreshold >= 0
    /\ c.HandleChangeThreshold >= 0

\* C14 (validation gates start-up): LoadConfig rejects with an error every
\* configuration out of range and returns every configuration in range;
\* Monitor is running only with a configuration Validate accepts, which the
\* built-in default is.
C14_ValidationGatesStartup ==
    /\ pcMain = "rejected" => ~InRange(config)
    /\ pcMain = "loaded" => InRange(config)
    /\ pcMonitor # "notstarted" => (InRange(config) /\ Validate(config))

\* C15 (channel FIFO): every send puts the next event of the tick at the
\* back of the channel and every receive takes the event at the front, so
\* events are received in the order they were sent, within a tick and
\* across ticks.
C15_ChannelFIFO ==
    [][/\ Len(events') > Len(events) =>
              (pending # <<>> /\ events' = Append(events, Head(pending)))
       /\ Len(events') < Len(events) => events' = Tail(events)
       /\ Len(events') = Len(events) => events' = events]_vars

\* two different events were sent in a tick, the first has been received
\* and the second waits in the channel
C15_Witness ==
    /\ pcMonitor = "send"
    /\ pending = <<>>
    /\ Len(tickSent) = 2
    /\ tickSent[1] # tickSent[2]
    /\ events = <<tickSent[2]>>

\* C16 (no tick is interrupted): Monitor returns only from its wait for the
\* timer or cancellation, with no event of a tick left to send and the mutex
\* free; and the retained snapshot is replaced only when the tick has sent
\* all its events.
C16_NoTickInterrupted ==
    /\ [][(pcMonitor # "returned" /\ pcMonitor' = "returned")
            => (pcMonitor = "select" /\ pending = <<>> /\ ~mutex)]_vars
    /\ [](pcMonitor = "returned" => (pending = <<>> /\ tickSent = <<>> /\ ~mutex))
    /\ [][currentProcesses' # currentProcesses
            => (pcMonitor = "send" /\ pending = <<>>)]_vars

\* cancellation has been signalled while a tick has sent one of its two
\* events; Monitor is still in the tick
C16_Witness ==
    /\ cancelled
    /\ pcMonitor = "send"
    /\ Len(tickSent) = 1
    /\ Len(pending) = 1

\* the Modified events of the tick for one PID, in the order of their sends
ModifiedEventsFor(pid) ==
    SelectSeq(TickAll, LAMBDA e : e.Type = "ProcessModified" /\ e.Process.PID = pid)

\* C17 (several modifications of one PID): for a PID in both snapshots the
\* tick has exactly one Modified event per record that detectModifications
\* produced, in the same order and with the record's kind and description;
\* no two of these events have the same kind, all of them carry the same
\* timestamp, and each carries the ProcessInfo of the new snapshot.
C17_MultipleModifications ==
    pcMonitor = "send" =>
        \A pid \in DOMAIN currentProcesses \cap DOMAIN newSnapshot :
            LET mods == detectModifications(config, currentProcesses[pid],
                                            newSnapshot[pid])
                evs  == ModifiedEventsFor(pid)
            IN  /\ Len(evs) = Len(mods)
                /\ \A i \in 1..Len(evs) :
                       /\ evs[i].ModType = mods[i].ModType
                       /\ evs[i].Description = mods[i].Description
                       /\ evs[i].Process = newSnapshot[pid]
                /\ \A i, j \in 1..Len(evs) :
                       /\ evs[i].Timestamp = evs[j].Timestamp
                       /\ (i # j => evs[i].ModType # evs[j].ModType)

\* a tick whose events are all sent and in which one PID got three Modified
\* events of three kinds
C17_Witness ==
    /\ pcMonitor = "send"
    /\ pending = <<>>
    /\ \E pid \in DOMAIN currentProcesses \cap DOMAIN newSnapshot :
           /\ Len(ModifiedEventsFor(pid)) >= 3
           /\ HasModification(pid, "CommandLineChange")
           /\ HasModification(pid, "WorkingDirectoryChange")
           /\ HasModification(pid, "MemoryModification")

\* C18 (filter-closed snapshots): every entry of the retained snapshot and
\* of the snapshot under construction is a process the filter accepts as
\* captured, stored under its own PID, and every Terminated event, in the
\* tick or on the channel, carries a ProcessInfo the filter accepts; within
\* the tick it is the retained entry of its PID.
C18_FilterClosedSnapshot ==
    /\ \A snap \in {currentProcesses, newSnapshot} :
           \A pid \in DOMAIN snap :
               /\ snap[pid].PID = pid
               /\ ~FilterRejects(config, snap[pid])
    /\ \A e \in Range(TickAll) \cup Range(events) :
           e.Type = "ProcessTerminated" => ~FilterRejects(config, e.Process)
    /\ \A e \in Range(TickAll) :
           e.Type = "ProcessTerminated" =>
               /\ e.Process.PID \in DOMAIN currentProcesses
               /\ e.Process = currentProcesses[e.Process.PID]

\* a tick that polled a retained PID as a process the filter now rejects,
\* left it out of the new snapshot and sent its Terminated event
C18_Witness ==
    /\ pcMonitor = "send"
    /\ pending = <<>>
    /\ \E p \in polled :
           /\ FilterRejects(config, getProcessInfo(p))
           /\ p.Pid \in DOMAIN currentProcesses
           /\ p.Pid \notin DOMAIN newSnapshot
           /\ \E e \in Range(tickSent) :
                  e.Type = "ProcessTerminated" /\ e.Process.PID = p.Pid

\* C19 (memory ratio threshold): for a PID in both snapshots whose old memory
\* usage is above 0, with memory monitoring enabled the tick has a
\* MemoryModification event exactly when new/old is below 1 - threshold or
\* above 1 + threshold (so not when the ratio is on a bound, nor when old
\* and new are equal); with memory monitoring disabled it has none.
C19_MemoryRatioThreshold ==
    pcMonitor = "send" =>
        \A pid \in DOMAIN currentProcesses \cap DOMAIN newSnapshot :
            LET old == currentProcesses[pid].MemoryUsage
                new == newSnapshot[pid].MemoryUsage
                t   == config.MemoryChangeThreshold
            IN  /\ (config.MonitorMemory /\ old > 0) =>
                       (HasModification(pid, "MemoryModification")
                           <=> \/ new * 100 < old * (100 - t)
                               \/ new * 100 > old * (100 + t))
                /\ ~config.MonitorMemory
                       => ~HasModification(pid, "MemoryModification")

\* C20 (single writer of the retained snapshot): a step that changes the
\* retained snapshot is the replace step of a tick whose enumeration
\* succeeded and whose events are all sent: Monitor holds the lock, the new
\* value is that tick's enumeration, Monitor goes back to its select, and
\* the step changes nothing of the consumer, the timer or the cancellation.
\* Steps of the consumer, the timer and Stop, Monitor's return on
\* cancellation and the end of a failed tick leave the snapshot as it was.
C20_SingleWriter ==
    /\ [][currentProcesses' # currentProcesses =>
              /\ pcMonitor = "send" /\ pcMonitor' = "select"
              /\ pending = <<>> /\ ~enumErr /\ mutex /\ ~mutex'
              /\ currentProcesses' = newSnapshot
              /\ UNCHANGED <<events, pcConsumer, tickPending, cancelled, pcMain, wg>>]_vars
    /\ [][(\/ pcConsumer' # pcConsumer
           \/ Len(events') < Len(events)
           \/ tickPending' # tickPending
           \/ cancelled' # cancelled
           \/ pcMain' # pcMain
           \/ pcMonitor' = "returned"
           \/ enumErr)
              => currentProcesses' = currentProcesses]_vars

\* a retained snapshot written by a replace step has then been through a
\* receive of the consumer, a failed tick, the cancellation and the return
\* of the consumer
C20_Witness ==
    /\ currentProcesses # EmptySnapshot
    /\ cancelled
    /\ pcConsumer = "returned"
    /\ pcMonitor = "enumerated"
    /\ enumErr
    /\ events = <<>>

\* C21 (per-PID event stream): starting with nothing sent, every send of a
\* Created event is for a PID whose stream is empty or ends its last
\* lifetime with Terminated, and every send of a Modified or Terminated
\* event is for a PID whose last lifecycle event is Created.  So the stream
\* of a PID starts with Created, Created and Terminated alternate, and
\* Modified events lie between a Created and the next Terminated.
C21_PerPidEventStream ==
    [][Len(tickSent') = Len(tickSent) + 1 =>
           LET e == Head(pending)
           IN  /\ tickSent' = Append(tickSent, e)
               /\ e.Type = "ProcessCreated" => e.Process.PID \notin live
               /\ e.Type \in {"ProcessModified", "ProcessTerminated"}
                      => e.Process.PID \in live
               /\ e.Type = "ProcessCreated" => e.Process.PID \in live'
               /\ e.Type = "ProcessTerminated" => e.Process.PID \notin live']_vars

\* a tick, all sent, with a Terminated event for one PID and a Modified
\* event for another, both created in earlier ticks, and the second of them
\* still in its lifetime
C21_Witness ==
    /\ pcMonitor = "send"
    /\ pending = <<>>
    /\ \E e1, e2 \in Range(tickSent) :
           /\ e1.Type = "ProcessTerminated"
           /\ e2.Type = "ProcessModified"
           /\ e1.Process.PID # e2.Process.PID
           /\ live = {e2.Process.PID}

\* C22 (lock balance): the mutex is held exactly while Monitor is in the
\* sending part of a tick; it is taken only by the step that follows a
\* successful enumeration and released only by the step that ends that
\* tick, and the step that ends a failed tick neither takes nor holds it.
\* So it is free whenever Monitor waits at its select and when Monitor has
\* returned.
C22_LockBalance ==
    /\ [](mutex <=> pcMonitor = "send")
    /\ [][(~mutex /\ mutex') =>
              (pcMonitor = "enumerated" /\ ~enumErr /\ pcMonitor' = "send")]_vars
    /\ [][(mutex /\ ~mutex') =>
              (pcMonitor = "send" /\ pending = <<>> /\ pcMonitor' = "select")]_vars
    /\ [][(pcMonitor = "enumerated" /\ enumErr /\ pcMonitor' # pcMonitor) =>
              (~mutex /\ ~mutex' /\ pcMonitor' = "select")]_vars
    /\ [][pcMonitor' = "returned" => ~mutex']_vars

\* Monitor has returned with the lock free after a tick that took and
\* released it; an event of that tick is still in the channel
C22_Witness ==
    /\ pcMonitor = "returned"
    /\ ~mutex
    /\ currentProcesses # EmptySnapshot
    /\ pcMain = "waiting"
    /\ events # <<>>

\* C23 (orderly shutdown): Stop returns only when the cancellation is
\* signalled and both Monitor and the event loop have returned (the
\* WaitGroup counter is 0), and once Stop has returned no step sends an
\* event on the channel or receives one from it, and neither goroutine
\* moves.
C23_OrderlyShutdown ==
    /\ [][(pcMain # "returned" /\ pcMain' = "returned") =>
              /\ cancelled
              /\ pcMonitor = "returned"
              /\ pcConsumer = "returned"
              /\ wg = 0]_vars
    /\ [](pcMain = "returned" =>
              /\ cancelled
              /\ pcMonitor = "returned"
              /\ pcConsumer = "returned")
    /\ [][pcMain = "returned" =>
              UNCHANGED <<events, tickSent, pending, pcMonitor, pcConsumer>>]_vars

\* Stop has returned after a tick that retained a process; an event of that
\* tick is still in the channel and stays there
C23_Witness ==
    /\ pcMain = "returned"
    /\ currentProcesses # EmptySnapshot
    /\ events # <<>>

====
